---- MODULE Spec2Model ----
(***************************************************************************)
(* Model of examples/speedup/main_reload_idv.py: main (the repeat loop),   *)
(* evaluate_model (reconstruction and the trial loop) and _test (the       *)
(* staged evaluation and the ROC/AUC computation).                         *)
(*                                                                         *)
(* Numbers the program computes with floats are exact rationals here,      *)
(* [n |-> numerator, d |-> denominator], d > 0 and reduced; the float nan  *)
(* is the one record with d = 0.                                           *)
(***************************************************************************)
EXTENDS Integers, Sequences, FiniteSets, TLC

\* ------------------------------------------------------------- bounds ---
MaxNums == 2        \* largest nums / nums_average explored
MaxT == 1           \* a stage's profiled time lies in 0..MaxT
MaxTagLen == 2      \* tokens in a variant tag
AucRows == 4        \* rows of a test set handed to _test directly
AucScore == 2       \* scores handed to _test directly lie in -AucScore..AucScore

\* -------------------------------------------------- program constants ---
n_repeats == 5
KB == 1000
MB == 1000000

\* ---------------------------------------------------------- rationals ---
RECURSIVE GCD(_, _)
GCD(a, b) == IF b = 0 THEN a ELSE GCD(b, a % b)

Abs(x) == IF x < 0 THEN -x ELSE x

NaN == [n |-> 0, d |-> 0]

\* n / d as a float division does it: nan for 0/0
Rat(n, d) ==
    IF d = 0 THEN NaN
    ELSE LET g == GCD(Abs(n), Abs(d))
             s == IF d < 0 THEN -1 ELSE 1
         IN  [n |-> (s * n) \div g, d |-> (s * d) \div g]

IsNaN(a) == a.d = 0

RatAdd(a, b) ==
    IF IsNaN(a) \/ IsNaN(b) THEN NaN ELSE Rat(a.n * b.d + b.n * a.d, a.d * b.d)

RatDivInt(a, k) == IF IsNaN(a) THEN NaN ELSE Rat(a.n, a.d * k)

RECURSIVE RatSum(_)
RatSum(s) == IF s = <<>> THEN Rat(0, 1) ELSE RatAdd(s[1], RatSum(Tail(s)))

\* np.mean of a list: the sum over the count; nan for the empty list
NpMeanSum(s) == IF s = <<>> THEN NaN ELSE RatSum(s)   \* the sum, not divided
NpMean(s) == RatDivInt(RatSum(s), Len(s))

\* ------------------------------------------------------------ ROC/AUC ---
Idx(s) == 1..Len(s)

\* the distinct values of a vector, highest first
RECURSIVE SortedDesc(_)
SortedDesc(S) ==
    IF S = {} THEN <<>>
    ELSE LET m == CHOOSE x \in S : \A y \in S : y <= x
         IN  <<m>> \o SortedDesc(S \ {m})

RECURSIVE SortedAsc(_)
SortedAsc(S) ==
    IF S = {} THEN <<>>
    ELSE LET m == CHOOSE x \in S : \A y \in S : x <= y
         IN  <<m>> \o SortedAsc(S \ {m})

ThresholdsWrongOrder(score) == SortedAsc({score[k] : k \in Idx(score)})
Thresholds(score) == SortedDesc({score[k] : k \in Idx(score)})

\* rows at or above threshold t that are (pos = TRUE) / are not the positive label
CountAbove(y, score, t, pos) ==
    Cardinality({k \in Idx(y) : score[k] >= t /\ ((y[k] = 1) = pos)})

\* roc_curve's drop_intermediate: keep the end points and the corners
Corners(fps, tps) ==
    IF Len(fps) <= 2 THEN Idx(fps)
    ELSE {k \in Idx(fps) :
            \/ k = 1
            \/ k = Len(fps)
            \/ fps[k + 1] - 2 * fps[k] + fps[k - 1] # 0
            \/ tps[k + 1] - 2 * tps[k] + tps[k - 1] # 0}

RECURSIVE Pick(_, _)
Pick(s, keep) ==
    IF s = <<>> THEN <<>>
    ELSE LET k == Len(s)
             front == Pick(SubSeq(s, 1, k - 1), keep)
         IN  IF k \in keep THEN Append(front, s[k]) ELSE front

\* roc_curve(y, score, pos_label=1): the counts fps, tps at each threshold,
\* thresholds swept from the highest score down, with the point (0, 0) first
RocCounts(y, score) ==
    LET th == Thresholds(score)
        fps == [k \in Idx(th) |-> CountAbove(y, score, th[k], FALSE)]
        tps == [k \in Idx(th) |-> CountAbove(y, score, th[k], TRUE)]
        keep == Corners(fps, tps)
    IN  [fps |-> <<0>> \o Pick(fps, keep), tps |-> <<0>> \o Pick(tps, keep)]

\* twice the trapezoidal area under the curve of counts
RECURSIVE Trapz2(_, _)
Trapz2(x, y) ==
    IF Len(x) < 2 THEN 0
    ELSE (x[2] - x[1]) * (y[2] + y[1]) + Trapz2(Tail(x), Tail(y))

\* metrics.auc(fpr, tpr) with fpr = fps / fps[-1], tpr = tps / tps[-1];
\* a class without rows makes its rate, and so the area, nan
RocAuc(y, score) ==
    LET c == RocCounts(y, score)
        N == c.fps[Len(c.fps)]
        P == c.tps[Len(c.tps)]
    IN  IF N = 0 \/ P = 0 THEN NaN ELSE Rat(Trapz2(c.fps, c.tps), 2 * N * P)


\* ------------------------------------------------- variant tags, dicts ---
\* A variant tag (model_name) is a sequence of tokens; `'KJL' in model_name`
\* is the search for the token.
Vocab == {"KJL", "Nystrom", "OCSVM", "GMM", "XYZ"}

RECURSIVE SeqsOfLen(_, _)
SeqsOfLen(S, k) ==
    IF k = 0 THEN {<<>>}
    ELSE {Append(s, x) : s \in SeqsOfLen(S, k - 1), x \in S}

SeqsUpTo(S, k) == UNION {SeqsOfLen(S, m) : m \in 1..k}

Tags == SeqsUpTo(Vocab, MaxTagLen)

Contains(tag, tok) == \E k \in 1..Len(tag) : tag[k] = tok

KJLFields == {"sigma", "Xrow", "U"}
NystromFields == {"sigma", "Xrow", "eigvec_lambda"}
OCSVMFields == {"kernel", "_gamma", "support_vectors_", "_dual_coef_", "_intercept_"}
GMMFields == {"covariance_type", "weights_", "means_", "precisions_cholesky_"}
ProjectFields == KJLFields \cup NystromFields
ModelFields == OCSVMFields \cup GMMFields

\* a loaded parameter mapping: the keys it holds; name is the value of its
\* key 'model_name' when it has that key
Dict(keys, name) == [keys |-> keys, name |-> name]
NoDict == Dict({}, <<>>)

\* key sets with at most one key of S missing
AllButOne(S) == {S} \cup {S \ {k} : k \in S}

\* d[k] for every k of ks succeeds (no KeyError)
HasAllLenient(d, ks) == TRUE
HasAll(d, ks) == ks \subseteq d.keys

\* ---------------------------------------------------------------- heap ---
\* Objects live in heap cells; st = 0 is the state the object was built or
\* loaded in, st = 1 any state an in-place mutation left it in.
Obj(cls, data) == [cls |-> cls, data |-> data, st |-> 0]
Free == Obj("free", [none |-> TRUE])
NoneObj == Obj("NoneType", [none |-> TRUE])
Array(rows, form) == Obj("ndarray", [rows |-> rows, form |-> form])
Labels(y) == Obj("ndarray", [labels |-> y])
Flags(kjl, nys) == Obj("dict", [is_kjl |-> kjl, is_nystrom |-> nys])

Origs == {"model", "X_test", "y_test", "params", "project"}
CopyOf == [model |-> "model_copy", X_test |-> "X_test_copy", y_test |-> "y_test_copy",
           params |-> "params_copy", project |-> "project_copy"]
Copies == {CopyOf[r] : r \in Origs}
Locs == Origs \cup Copies \cup {"transformed"}

EmptyHeap == [l \in Locs |-> Free]

\* copy.deepcopy(obj): a new object with the same content
NoCopy(h, r) == [ref |-> r, heap |-> h]
DeepCopy(h, r) == [ref |-> CopyOf[r], heap |-> [h EXCEPT ![CopyOf[r]] = h[r]]]

\* an external call may change its receiver or argument in place
Touch(h, r, yes) == IF yes THEN [h EXCEPT ![r].st = 1] ELSE h

\* ------------------------------------------------------ reconstruction ---
\* lines 135-149: the projection object and the stage flags
BuildProjectNoFlag(tag, pp) ==
    IF Contains(tag, "KJL") THEN
        IF HasAll(pp, KJLFields)
        THEN [exc |-> "none", is_kjl |-> TRUE, is_nystrom |-> FALSE,
              obj |-> Obj("KJL", [sigma |-> "sigma", Xrow |-> "Xrow", U |-> "U"])]
        ELSE [exc |-> "KeyError", is_kjl |-> FALSE, is_nystrom |-> FALSE, obj |-> NoneObj]
    ELSE IF Contains(tag, "Nystrom") THEN
        IF HasAll(pp, NystromFields)
        THEN [exc |-> "none", is_kjl |-> FALSE, is_nystrom |-> FALSE,
              obj |-> Obj("NYSTROM", [sigma |-> "sigma", Xrow |-> "Xrow",
                                      eigvec_lambda |-> "eigvec_lambda"])]
        ELSE [exc |-> "KeyError", is_kjl |-> FALSE, is_nystrom |-> FALSE, obj |-> NoneObj]
    ELSE [exc |-> "none", is_kjl |-> FALSE, is_nystrom |-> FALSE, obj |-> NoneObj]
BuildProject(tag, pp) ==
    IF Contains(tag, "KJL") THEN
        IF HasAll(pp, KJLFields)
        THEN [exc |-> "none", is_kjl |-> TRUE, is_nystrom |-> FALSE,
              obj |-> Obj("KJL", [sigma |-> "sigma", Xrow |-> "Xrow", U |-> "U"])]
        ELSE [exc |-> "KeyError", is_kjl |-> FALSE, is_nystrom |-> FALSE, obj |-> NoneObj]
    ELSE IF Contains(tag, "Nystrom") THEN
        IF HasAll(pp, NystromFields)
        THEN [exc |-> "none", is_kjl |-> FALSE, is_nystrom |-> TRUE,
              obj |-> Obj("NYSTROM", [sigma |-> "sigma", Xrow |-> "Xrow",
                                      eigvec_lambda |-> "eigvec_lambda"])]
        ELSE [exc |-> "KeyError", is_kjl |-> FALSE, is_nystrom |-> FALSE, obj |-> NoneObj]
    ELSE [exc |-> "none", is_kjl |-> FALSE, is_nystrom |-> FALSE, obj |-> NoneObj]

\* lines 153-168: the detector object
BuildModelFallback(tag, mp) ==
    IF Contains(tag, "GMM") /\ ~Contains(tag, "OCSVM") THEN
        IF HasAll(mp, GMMFields)
        THEN [exc |-> "none",
              obj |-> Obj("GMM", [covariance_type |-> "covariance_type", weights_ |-> "weights_",
                                  means_ |-> "means_",
                                  precisions_cholesky_ |-> "precisions_cholesky_"])]
        ELSE [exc |-> "KeyError", obj |-> NoneObj]
    ELSE IF HasAll(mp, OCSVMFields)
        THEN [exc |-> "none",
              obj |-> Obj("OCSVM", [kernel |-> "kernel", gamma |-> "_gamma",
                                    support_vectors_ |-> "support_vectors_",
                                    dual_coef_ |-> "_dual_coef_",
                                    intercept_ |-> "_intercept_"])]
        ELSE [exc |-> "KeyError", obj |-> NoneObj]
BuildModel(tag, mp) ==
    IF Contains(tag, "OCSVM") THEN
        IF HasAll(mp, OCSVMFields)
        THEN [exc |-> "none",
              obj |-> Obj("OCSVM", [kernel |-> "kernel", gamma |-> "_gamma",
                                    support_vectors_ |-> "support_vectors_",
                                    dual_coef_ |-> "_dual_coef_",
                                    intercept_ |-> "_intercept_"])]
        ELSE [exc |-> "KeyError", obj |-> NoneObj]
    ELSE IF Contains(tag, "GMM") THEN
        IF HasAll(mp, GMMFields)
        THEN [exc |-> "none",
              obj |-> Obj("GMM", [covariance_type |-> "covariance_type", weights_ |-> "weights_",
                                  means_ |-> "means_",
                                  precisions_cholesky_ |-> "precisions_cholesky_"])]
        ELSE [exc |-> "KeyError", obj |-> NoneObj]
    ELSE [exc |-> "NotImplementedError", obj |-> NoneObj]

\* lines 131-168 in the order the code runs them: the first failure is raised
Reconstruct(mp, pp) ==
    IF "model_name" \notin mp.keys
    THEN [exc |-> "KeyError", project |-> NoneObj, model |-> NoneObj, flags |-> Flags(FALSE, FALSE)]
    ELSE LET p == BuildProject(mp.name, pp)
             m == BuildModel(mp.name, mp)
         IN  [exc |-> IF p.exc # "none" THEN p.exc ELSE m.exc,
              project |-> p.obj, model |-> m.obj,
              flags |-> Flags(p.is_kjl, p.is_nystrom)]

\* format_unit(size, unit)
format_unit(size, unit) ==
    IF unit = "KB" THEN Rat(size, KB)
    ELSE IF unit = "MB" THEN Rat(size, MB)
    ELSE Rat(size, 1)


\* ================================================================ state ===
VARIABLES
    pc,             \* position of the running code
    caller,         \* who called the function at the bottom of the stack
    env,            \* what the disk, the timer and the library can answer
    exc,            \* the exception in flight or caught, "none" without one
    \* main
    model_name, nums_average, i, aucs, test_times, model_spaces, test_spaces,
    X_test_shape, model_params, project_params, infolog, errlog, dbg, res,
    \* evaluate_model
    e_model_params, e_project_params, nums, is_average, j, auc, test_time, ret,
    heap, ntrials,
    \* _test
    t_refs, t_time, y_score, calls, t_ret

main_vars == <<model_name, nums_average, i, aucs, test_times, model_spaces, test_spaces,
               X_test_shape, model_params, project_params, infolog, errlog, dbg, res>>
eval_vars == <<e_model_params, e_project_params, nums, is_average, j, auc, test_time, ret,
               ntrials>>
test_vars == <<t_refs, t_time, y_score, calls, t_ret>>
vars == <<pc, caller, env, exc, main_vars, eval_vars, heap, test_vars>>

NoRefs == [model |-> "model", X_test |-> "X_test", y_test |-> "y_test",
           params |-> "params", project |-> "project"]
NoRet == [auc |-> NaN, test_time |-> NaN]
NoDbg == [model_spaces_mean |-> NaN, model_spaces_tot |-> NaN, auc_mean |-> NaN]
NoRes == [written |-> FALSE, test_times |-> <<>>, aucs |-> <<>>,
          model_spaces |-> <<>>, test_spaces |-> <<>>, X_test_shape |-> 0]

\* label vectors of up to maxrows rows
LabelVecs(maxrows) == SeqsUpTo({0, 1}, maxrows)

Injective(v) == \A a, b \in Idx(v) : v[a] = v[b] => a = b

\* the score vectors a detector can return for n rows
ScoreChoices(e, n) == {v \in SeqsOfLen(e.score_vals, n) : e.ties \/ Injective(v)}

\* What evaluate_model's collaborators can do when it is called directly:
\* a stage takes 0..MaxT, scores are 0 or 1 with ties, a call may change its
\* receiver and argument in place, a call may raise.
EvalEnv == [clock |-> 0..MaxT,
            score_vals |-> {0, 1},
            ties |-> TRUE,
            mutate |-> BOOLEAN,
            ok |-> BOOLEAN,
            model_keys |-> {},
            project_keys |-> {},
            tests |-> {},
            sizes |-> {}]
EvalTests == {<<1>>, <<0, 1>>}

\* The disk and library main runs against: a snapshot is whole or lacks one
\* field, the test set has one row of each class, the detector ranks the two
\* rows either way, a load or a call may raise.
MainEnv == [clock |-> {MaxT},
            score_vals |-> {0, 1},
            ties |-> FALSE,
            mutate |-> {FALSE},
            ok |-> BOOLEAN,
            model_keys |-> {ModelFields, ModelFields \ {"kernel"}, ModelFields \ {"means_"}},
            project_keys |-> {ProjectFields, ProjectFields \ {"sigma"}},
            tests |-> {<<0, 1>>},
            sizes |-> {1500}]

\* _test called directly on any labels of up to AucRows rows, with a detector
\* that can give any scores in -AucScore..AucScore
TestEnv == [clock |-> {MaxT},
            score_vals |-> (0 - AucScore)..AucScore,
            ties |-> TRUE,
            mutate |-> {FALSE},
            ok |-> {TRUE},
            model_keys |-> {},
            project_keys |-> {},
            tests |-> {},
            sizes |-> {}]

MainNames == {<<"OCSVM">>, <<"KJL", "GMM">>, <<"Nystrom", "OCSVM">>, <<"KJL">>, <<"XYZ">>}

IdleMain ==
    /\ model_name = <<>> /\ nums_average = 0 /\ i = 0
    /\ aucs = <<>> /\ test_times = <<>> /\ model_spaces = <<>> /\ test_spaces = <<>>
    /\ X_test_shape = 0 /\ model_params = NoDict /\ project_params = NoDict
    /\ infolog = <<>> /\ errlog = <<>> /\ dbg = NoDbg /\ res = NoRes

IdleEval ==
    /\ e_model_params = NoDict /\ e_project_params = NoDict
    /\ nums = 0 /\ is_average = TRUE /\ j = 0 /\ auc = <<>> /\ test_time = <<>>
    /\ ret = NoRet /\ ntrials = 0

IdleTest ==
    /\ t_refs = NoRefs /\ t_time = 0 /\ y_score = <<>> /\ calls = <<>> /\ t_ret = NoRet

\* main(model_name, nums_average) is entered: lines 321-332
Init ==
    /\ pc = "main_for" /\ caller = "main" /\ env = MainEnv /\ exc = "none"
    /\ model_name \in MainNames /\ nums_average \in 1..MaxNums /\ i = 0
    /\ aucs = <<>> /\ test_times = <<>> /\ model_spaces = <<>> /\ test_spaces = <<>>
    /\ X_test_shape = 0 /\ model_params = NoDict /\ project_params = NoDict
    /\ infolog = <<>> /\ errlog = <<>> /\ dbg = NoDbg /\ res = NoRes
    /\ IdleEval /\ IdleTest /\ heap = EmptyHeap

\* evaluate_model(model_params, project_params, X_test, y_test, nums, is_average)
\* is entered by a direct caller
InitEval ==
    /\ pc = "eval_reconstruct" /\ caller = "direct" /\ env = EvalEnv /\ exc = "none"
    /\ IdleMain /\ IdleTest
    /\ \/ \E tag \in Tags, mk \in AllButOne(ModelFields) :
             e_model_params = Dict(mk \cup {"model_name"}, tag)
       \/ e_model_params = Dict(ModelFields, <<>>)
    /\ \E pk \in AllButOne(ProjectFields) : e_project_params = Dict(pk, <<>>)
    /\ nums \in 0..MaxNums /\ is_average \in BOOLEAN
    /\ j = 0 /\ auc = <<>> /\ test_time = <<>> /\ ret = NoRet /\ ntrials = 0
    /\ \E y \in EvalTests :
          heap = [EmptyHeap EXCEPT !["X_test"] = Array(Len(y), "raw"),
                                   !["y_test"] = Labels(y)]

\* _test(model, X_test, y_test, params, project) is entered by a direct caller
InitTest ==
    /\ pc = "test_projection" /\ caller = "test" /\ env = TestEnv /\ exc = "none"
    /\ IdleMain /\ IdleEval
    /\ t_refs = NoRefs /\ t_time = 0 /\ y_score = <<>> /\ calls = <<>> /\ t_ret = NoRet
    /\ \E y \in LabelVecs(AucRows) :
          LET r == Reconstruct(Dict(GMMFields \cup {"model_name"}, <<"KJL", "GMM">>),
                               Dict(KJLFields, <<>>)) IN
          heap = [EmptyHeap EXCEPT !["model"] = r.model, !["project"] = r.project,
                                   !["params"] = r.flags,
                                   !["X_test"] = Array(Len(y), "raw"),
                                   !["y_test"] = Labels(y)]

\* an exception leaves the running function: main catches it at line 358,
\* a direct caller receives it
Raise(e) ==
    /\ exc' = e
    /\ pc' = IF caller = "main" THEN "main_except" ELSE "raised"


\* the copies a trial worked on are dropped when the trial is over
Discard(h) == [l \in Locs |-> IF l \in Origs THEN h[l] ELSE Free]

Rows(h, r) == h[r].data.rows

\* ================================================================ _test ===
\* lines 68-81: the projection stage. proj_test_time is what the profiler
\* measured around the call; without a call it measured nothing.
test_projection ==
    /\ pc = "test_projection"
    /\ LET f == heap[t_refs.params].data IN
       IF f.is_kjl \/ f.is_nystrom THEN
          IF heap[t_refs.project].cls = "NoneType" THEN
             /\ Raise("AttributeError")
             /\ heap' = Discard(heap)
             /\ UNCHANGED <<t_refs, t_time, calls>>
          ELSE \E ok \in env.ok, mp \in env.mutate, mx \in env.mutate, dt \in env.clock :
             /\ calls' = Append(calls, [fn |-> "transform", self |-> t_refs.project,
                                        arg |-> t_refs.X_test])
             /\ IF ok THEN
                   /\ heap' = [Touch(Touch(heap, t_refs.project, mp), t_refs.X_test, mx)
                                 EXCEPT !["transformed"] =
                                     Array(Rows(heap, t_refs.X_test), "projected")]
                   /\ t_refs' = [t_refs EXCEPT !.X_test = "transformed"]
                   /\ t_time' = 0 + dt
                   /\ pc' = "test_prediction"
                   /\ exc' = exc
                ELSE
                   /\ Raise("ScoringError")
                   /\ heap' = Discard(Touch(Touch(heap, t_refs.project, mp), t_refs.X_test, mx))
                   /\ UNCHANGED <<t_refs, t_time>>
       ELSE
          /\ t_time' = 0 + 0
          /\ pc' = "test_prediction"
          /\ UNCHANGED <<exc, heap, t_refs, calls>>
    /\ UNCHANGED <<caller, env, main_vars, eval_vars, y_score, t_ret>>

\* lines 83-109: the prediction stage, the ROC curve and its area, the return
test_prediction ==
    /\ pc = "test_prediction"
    /\ \E ok \in env.ok, mm \in env.mutate, mx \in env.mutate, dt \in env.clock,
          s \in ScoreChoices(env, Rows(heap, t_refs.X_test)) :
          /\ calls' = Append(calls, [fn |-> "decision_function", self |-> t_refs.model,
                                     arg |-> t_refs.X_test])
          /\ IF ok THEN
                /\ y_score' = s
                /\ heap' = Touch(Touch(heap, t_refs.model, mm), t_refs.X_test, mx)
                /\ t_time' = t_time + dt
                /\ t_ret' = [auc |-> RocAuc(heap[t_refs.y_test].data.labels, s),
                             test_time |-> Rat(t_time + dt, 1)]
                /\ pc' = IF caller = "test" THEN "returned" ELSE "test_return"
                /\ exc' = exc
             ELSE
                /\ Raise("ScoringError")
                /\ heap' = Discard(Touch(Touch(heap, t_refs.model, mm), t_refs.X_test, mx))
                /\ UNCHANGED <<y_score, t_time, t_ret>>
    /\ UNCHANGED <<caller, env, main_vars, eval_vars, t_refs>>

\* ======================================================= evaluate_model ===
\* lines 131-168. The two mappings are not read after line 166: they are
\* dropped once both objects are built, and stay in view when a line raised.
eval_reconstruct ==
    /\ pc = "eval_reconstruct"
    /\ LET r == Reconstruct(e_model_params, e_project_params) IN
       IF r.exc # "none" THEN
          /\ Raise(r.exc)
          /\ UNCHANGED <<heap, e_model_params, e_project_params>>
       ELSE
          /\ heap' = [heap EXCEPT !["model"] = r.model, !["project"] = r.project,
                                  !["params"] = r.flags]
          /\ pc' = "eval_loop"
          /\ exc' = exc
          /\ e_model_params' = NoDict
          /\ e_project_params' = NoDict
    /\ UNCHANGED <<caller, env, main_vars, nums, is_average, j, auc, test_time, ret,
                   ntrials, test_vars>>

\* whether the loop of line 176, or the single call of line 185, has a trial left
TrialLeft == IF is_average THEN j < nums ELSE j = 0

\* lines 178-179 (185-186): the five arguments are copied, then _test is entered
eval_trial ==
    /\ pc = "eval_loop"
    /\ TrialLeft
    /\ LET c1 == DeepCopy(heap, "model")
           c2 == DeepCopy(c1.heap, "X_test")
           c3 == DeepCopy(c2.heap, "y_test")
           c4 == DeepCopy(c3.heap, "params")
           c5 == DeepCopy(c4.heap, "project")
       IN  /\ heap' = c5.heap
           /\ t_refs' = [model |-> c1.ref, X_test |-> c2.ref, y_test |-> c3.ref,
                         params |-> c4.ref, project |-> c5.ref]
    /\ t_time' = 0
    /\ y_score' = <<>>
    /\ calls' = <<>>
    /\ t_ret' = NoRet
    /\ ntrials' = ntrials + 1
    /\ pc' = "test_projection"
    /\ UNCHANGED <<caller, env, exc, main_vars, e_model_params, e_project_params,
                   nums, is_average, j, auc, test_time, ret>>

\* lines 180-181 (185): the trial's result is taken
eval_collect ==
    /\ pc = "test_return"
    /\ IF is_average THEN
          /\ auc' = Append(auc, t_ret.auc)
          /\ test_time' = Append(test_time, t_ret.test_time)
          /\ ret' = ret
       ELSE
          /\ ret' = t_ret
          /\ UNCHANGED <<auc, test_time>>
    /\ j' = j + 1
    /\ heap' = Discard(heap)
    /\ pc' = "eval_loop"
    /\ UNCHANGED <<caller, env, exc, main_vars, e_model_params, e_project_params,
                   nums, is_average, ntrials, test_vars>>

\* lines 182-183, 188
eval_return ==
    /\ pc = "eval_loop"
    /\ ~TrialLeft
    /\ ret' = IF is_average
              THEN [auc |-> NpMean(auc), test_time |-> NpMean(test_time)]
              ELSE ret
    /\ pc' = IF caller = "main" THEN "main_record" ELSE "returned"
    /\ UNCHANGED <<caller, env, exc, main_vars, e_model_params, e_project_params,
                   nums, is_average, j, auc, test_time, ntrials, heap, test_vars>>


\* ================================================================= main ===
\* get_model_space / get_test_set_space: os.path.getsize, then format_unit
get_model_space(model_size, project_size, unit) == format_unit(model_size + project_size, unit)
get_test_set_space(size, unit) == format_unit(size, unit)

\* lines 336-337: the loop takes the next index, or ends after the last
main_for ==
    /\ pc = "main_for"
    /\ IF i < n_repeats
       THEN /\ infolog' = Append(infolog, i)
            /\ pc' = "load_model"
       ELSE /\ infolog' = infolog
            /\ pc' = "main_finish"
    /\ UNCHANGED <<caller, env, exc, model_name, nums_average, i, aucs, test_times,
                   model_spaces, test_spaces, X_test_shape, model_params, project_params,
                   errlog, dbg, res, eval_vars, heap, test_vars>>

\* lines 340-342
main_load_model ==
    /\ pc = "load_model"
    /\ \E ok \in env.ok, ks \in env.model_keys :
          IF ok THEN
             /\ model_params' = Dict(ks \cup {"model_name"}, model_name)
             /\ pc' = "load_project"
             /\ exc' = exc
          ELSE
             /\ Raise("IOError")
             /\ model_params' = model_params
    /\ UNCHANGED <<caller, env, model_name, nums_average, i, aucs, test_times,
                   model_spaces, test_spaces, X_test_shape, project_params,
                   infolog, errlog, dbg, res, eval_vars, heap, test_vars>>

\* lines 343-345
main_load_project ==
    /\ pc = "load_project"
    /\ \E ok \in env.ok, ks \in env.project_keys, ms \in env.sizes, ps \in env.sizes :
          IF ok THEN
             /\ project_params' = Dict(ks, <<>>)
             /\ model_spaces' = Append(model_spaces, get_model_space(ms, ps, "KB"))
             /\ pc' = "load_test"
             /\ exc' = exc
          ELSE
             /\ Raise("IOError")
             /\ UNCHANGED <<project_params, model_spaces>>
    /\ UNCHANGED <<caller, env, model_name, nums_average, i, aucs, test_times,
                   test_spaces, X_test_shape, model_params,
                   infolog, errlog, dbg, res, eval_vars, heap, test_vars>>

\* lines 348-351
main_load_test ==
    /\ pc = "load_test"
    /\ \E ok \in env.ok, y \in env.tests, sz \in env.sizes :
          IF ok THEN
             /\ heap' = [heap EXCEPT !["X_test"] = Array(Len(y), "raw"),
                                     !["y_test"] = Labels(y)]
             /\ X_test_shape' = Len(y)
             /\ test_spaces' = Append(test_spaces, get_test_set_space(sz, "KB"))
             /\ pc' = "call_evaluate"
             /\ exc' = exc
          ELSE
             /\ Raise("IOError")
             /\ UNCHANGED <<heap, X_test_shape, test_spaces>>
    /\ UNCHANGED <<caller, env, model_name, nums_average, i, aucs, test_times,
                   model_spaces, model_params, project_params,
                   infolog, errlog, dbg, res, eval_vars, test_vars>>

\* line 354: evaluate_model(model_params, project_params, X_test, y_test,
\* nums=nums_average) is entered; is_average keeps its default
main_call_evaluate ==
    /\ pc = "call_evaluate"
    /\ e_model_params' = model_params
    /\ e_project_params' = project_params
    /\ nums' = nums_average
    /\ is_average' = TRUE
    /\ j' = 0 /\ auc' = <<>> /\ test_time' = <<>> /\ ret' = NoRet /\ ntrials' = 0
    /\ pc' = "eval_reconstruct"
    /\ UNCHANGED <<caller, env, exc, main_vars, heap, test_vars>>

\* The repeat is over: what it loaded and the frames of the calls it made are
\* not read again (the next repeat assigns each before reading it).
EndRepeat ==
    /\ model_params' = NoDict /\ project_params' = NoDict
    /\ heap' = EmptyHeap
    /\ e_model_params' = NoDict /\ e_project_params' = NoDict
    /\ nums' = 0 /\ is_average' = TRUE /\ j' = 0 /\ auc' = <<>> /\ test_time' = <<>>
    /\ ret' = NoRet /\ ntrials' = 0
    /\ t_refs' = NoRefs /\ t_time' = 0 /\ y_score' = <<>> /\ calls' = <<>> /\ t_ret' = NoRet

\* lines 354-357: evaluate_model returned
main_record ==
    /\ pc = "main_record"
    /\ aucs' = Append(aucs, ret.auc)
    /\ test_times' = Append(test_times, ret.test_time)
    /\ i' = i + 1
    /\ pc' = "main_for"
    /\ EndRepeat
    /\ UNCHANGED <<caller, env, exc, model_name, nums_average, model_spaces, test_spaces,
                   X_test_shape, infolog, errlog, dbg, res>>

\* lines 358-360: the handler logs and the loop goes on
main_exceptPad ==
    /\ pc = "main_except"
    /\ errlog' = Append(errlog, [level |-> "error", model_name |-> model_name])
    /\ aucs' = Append(aucs, NaN)
    /\ test_times' = Append(test_times, NaN)
    /\ exc' = "none"
    /\ i' = i + 1
    /\ pc' = "main_for"
    /\ EndRepeat
    /\ UNCHANGED <<caller, env, model_name, nums_average,
                   model_spaces, test_spaces, X_test_shape, infolog, dbg, res>>
main_exceptSilent ==
    /\ pc = "main_except"
    /\ exc' = "none"
    /\ i' = i + 1
    /\ pc' = "main_for"
    /\ EndRepeat
    /\ UNCHANGED <<caller, env, model_name, nums_average, aucs, test_times, errlog,
                   model_spaces, test_spaces, X_test_shape, infolog, dbg, res>>
main_except ==
    /\ pc = "main_except"
    /\ errlog' = Append(errlog, [level |-> "error", model_name |-> model_name])
    /\ exc' = "none"
    /\ i' = i + 1
    /\ pc' = "main_for"
    /\ EndRepeat
    /\ UNCHANGED <<caller, env, model_name, nums_average, aucs, test_times,
                   model_spaces, test_spaces, X_test_shape, infolog, dbg, res>>

\* lines 362-380: the summary line's numbers, the record, the dump
main_finish ==
    /\ pc = "main_finish"
    /\ dbg' = [model_spaces_mean |-> NpMean(model_spaces),
               model_spaces_tot |-> RatSum(model_spaces),
               auc_mean |-> NpMean(aucs)]
    /\ res' = [written |-> TRUE, test_times |-> test_times, aucs |-> aucs,
               model_spaces |-> model_spaces, test_spaces |-> test_spaces,
               X_test_shape |-> X_test_shape]
    /\ pc' = "done"
    /\ UNCHANGED <<caller, env, exc, model_name, nums_average, i, aucs, test_times,
                   model_spaces, test_spaces, X_test_shape, model_params, project_params,
                   infolog, errlog, eval_vars, heap, test_vars>>

\* ======================================================= specifications ===
Next ==
    \/ main_for \/ main_load_model \/ main_load_project \/ main_load_test
    \/ main_call_evaluate \/ main_record \/ main_except \/ main_finish
    \/ eval_reconstruct \/ eval_trial \/ eval_collect \/ eval_return
    \/ test_projection \/ test_prediction

NextEval ==
    \/ eval_reconstruct \/ eval_trial \/ eval_collect \/ eval_return
    \/ test_projection \/ test_prediction

NextTest == test_projection \/ test_prediction

\* main
Spec == Init /\ [][Next]_vars
\* evaluate_model on its own
SpecEval == InitEval /\ [][NextEval]_vars
\* _test on its own
SpecTest == InitTest /\ [][NextTest]_vars


\* =============================================================== claims ===
Known == {"KJL", "Nystrom", "OCSVM", "GMM"}
Named(d) == "model_name" \in d.keys
UnknownTag(d) == Named(d) /\ \A tok \in Known : ~Contains(d.name, tok)
Recognized(d) == Named(d) /\ \E tok \in Known : Contains(d.name, tok)
HasDetector(d) == Named(d) /\ (Contains(d.name, "OCSVM") \/ Contains(d.name, "GMM"))

\* the expected field set of the kind the tag matches
ExpectedProject(tag) ==
    IF Contains(tag, "KJL") THEN KJLFields
    ELSE IF Contains(tag, "Nystrom") THEN NystromFields ELSE {}
ExpectedModel(tag) ==
    IF Contains(tag, "OCSVM") THEN OCSVMFields
    ELSE IF Contains(tag, "GMM") THEN GMMFields ELSE {}
MissingExpected(mp, pp) ==
    \/ ExpectedProject(mp.name) \ pp.keys # {}
    \/ ExpectedModel(mp.name) \ mp.keys # {}

\* ---- C6 ----------------------------------------------------------------
Positives(y) == {k \in Idx(y) : y[k] = 1}
Negatives(y) == {k \in Idx(y) : y[k] # 1}
\* twice the number of (label-1 row, label-0 row) pairs the label-1 row wins,
\* a tie counting one half
PairWins2(y, s) ==
    2 * Cardinality({p \in Positives(y) \X Negatives(y) : s[p[1]] > s[p[2]]})
    + Cardinality({p \in Positives(y) \X Negatives(y) : s[p[1]] = s[p[2]]})
TestLabels == heap[t_refs.y_test].data.labels

\* C6: the AUC _test returns is the fraction of (label-1 row, label-0 row)
\* pairs in which the label-1 row has the larger score, ties counting one
\* half, whenever both classes occur; labels [0,0,1,1] with scores
\* [0.1, 0.2, -0.1, -0.2] (here in tenths) give 0.
C6_AucIsPairFraction ==
    (pc = "returned" /\ caller = "test") =>
        /\ (Positives(TestLabels) # {} /\ Negatives(TestLabels) # {}) =>
              t_ret.auc = Rat(PairWins2(TestLabels, y_score),
                              2 * Cardinality(Positives(TestLabels))
                                * Cardinality(Negatives(TestLabels)))
        /\ (TestLabels = <<0, 0, 1, 1>> /\ y_score = <<1, 2, -1, -2>>) =>
              t_ret.auc = [n |-> 0, d |-> 1]

C6_Witness ==
    /\ pc = "returned" /\ caller = "test"
    /\ TestLabels = <<0, 0, 1, 1>> /\ y_score = <<1, 2, -1, -2>>
    /\ t_ret.auc = [n |-> 0, d |-> 1]


\* ---- C5 ----------------------------------------------------------------
RatScale(a, k) == IF IsNaN(a) THEN NaN ELSE Rat(a.n * k, a.d)
AllEqual(s) == \A a, b \in Idx(s) : s[a] = s[b]

\* C5: with nums >= 1 and is_average, _test ran nums times and the values
\* returned are the means of the per-trial AUCs and times (nums times the
\* returned value is their sum; equal trials give back the trial's AUC; the
\* time is not negative); without is_average _test ran once, whatever nums
\* is, and its own result is returned.
C5_TrialsAndMeans ==
    (pc = "returned" /\ caller = "direct") =>
        /\ (is_average /\ nums >= 1) =>
              /\ ntrials = nums
              /\ Len(auc) = nums /\ Len(test_time) = nums
              /\ RatScale(ret.auc, nums) = RatSum(auc)
              /\ RatScale(ret.test_time, nums) = RatSum(test_time)
              /\ AllEqual(auc) => ret.auc = auc[1]
              /\ ret.test_time.n >= 0 /\ ret.test_time.d > 0
        /\ ~is_average =>
              /\ ntrials = 1
              /\ ret = t_ret
              /\ auc = <<>> /\ test_time = <<>>

C5_Witness ==
    /\ pc = "returned" /\ caller = "direct" /\ is_average /\ nums = 2
    /\ auc[1] # auc[2] /\ test_time[1] # test_time[2]
    /\ ~IsNaN(ret.auc)

\* ---- C3 ----------------------------------------------------------------
\* C3: a tag with none of 'KJL', 'Nystrom', 'OCSVM', 'GMM' makes
\* evaluate_model raise NotImplementedError: no detector or projection is
\* built in its place and no trial runs.
C3_UnsupportedRejected ==
    /\ [][(pc = "eval_reconstruct" /\ UnknownTag(e_model_params)) =>
             (pc' = "raised" /\ exc' = "NotImplementedError")]_vars
    /\ []((pc = "raised" /\ UnknownTag(e_model_params)) =>
             /\ exc = "NotImplementedError"
             /\ ntrials = 0 /\ calls = <<>>
             /\ heap["model"] = Free /\ heap["project"] = Free)

C3_Witness ==
    /\ pc = "raised" /\ caller = "direct" /\ exc = "NotImplementedError"
    /\ UnknownTag(e_model_params)
    /\ e_model_params.keys = ModelFields \cup {"model_name"}

\* ---- C4 ----------------------------------------------------------------
\* C4 as claimed: for a tag with a known substring, evaluate_model fails
\* (with KeyError, before any trial) only when an expected field is missing.
C4_AsClaimed ==
    (pc = "raised" /\ Recognized(e_model_params)) =>
        /\ exc = "KeyError"
        /\ MissingExpected(e_model_params, e_project_params)
        /\ ntrials = 0

\* C4 amended: a missing expected field raises KeyError before any trial;
\* with none missing both objects are built when the tag names a detector,
\* and NotImplementedError is raised when it names a projection only.
C4_MissingFieldRejected ==
    /\ [][(pc = "eval_reconstruct" /\ Recognized(e_model_params)) =>
             IF MissingExpected(e_model_params, e_project_params)
             THEN pc' = "raised" /\ exc' = "KeyError" /\ ntrials' = 0
             ELSE IF HasDetector(e_model_params)
                  THEN /\ pc' = "eval_loop" /\ exc' = "none"
                       /\ heap'["model"].cls \in {"OCSVM", "GMM"}
                       /\ heap'["project"].cls \in {"KJL", "NYSTROM", "NoneType"}
                  ELSE pc' = "raised" /\ exc' = "NotImplementedError" /\ ntrials' = 0]_vars
    /\ []((pc = "raised" /\ Recognized(e_model_params)) => ntrials = 0 /\ calls = <<>>)

C4_Witness ==
    /\ pc = "raised" /\ caller = "direct" /\ exc = "KeyError"
    /\ Recognized(e_model_params)
    /\ ExpectedModel(e_model_params.name) \ e_model_params.keys # {}
    /\ ntrials = 0

\* ---- C10 ---------------------------------------------------------------
ProjectPresent == heap["project"].cls # "NoneType"
InTrial == pc \in {"test_projection", "test_prediction", "test_return"}
TransformCall == [fn |-> "transform", self |-> "project_copy", arg |-> "X_test_copy"]
ScoreCall(x) == [fn |-> "decision_function", self |-> "model_copy", arg |-> x]

AfterReconstruct ==
    pc \in {"eval_loop", "test_projection", "test_prediction", "test_return", "returned"}

\* C8: each trial receives copies that are new objects equal to the
\* originals, and whatever the trial's calls do to what they receive, the
\* originals (model, projection, stage flags, the caller's X_test and y_test)
\* stay as they were built or passed in.
C8_TrialsIsolated ==
    /\ (caller = "direct" /\ (AfterReconstruct \/ pc = "raised")) =>
          \A r \in Origs : heap[r].st = 0
    /\ (caller = "direct" /\ AfterReconstruct) =>
          /\ heap["X_test"].cls = "ndarray" /\ heap["X_test"].data.form = "raw"
          /\ heap["y_test"].cls = "ndarray"
          /\ heap["model"].cls \in {"OCSVM", "GMM"}
    /\ (caller = "direct" /\ pc = "test_projection") =>
          \A r \in Origs : t_refs[r] = CopyOf[r] /\ heap[t_refs[r]] = heap[r]
    /\ (caller = "direct" /\ pc = "eval_loop") =>
          \A l \in Locs \ Origs : heap[l] = Free

C8_Witness ==
    /\ caller = "direct" /\ pc = "test_return" /\ j = 1
    /\ heap["model_copy"].st = 1 /\ heap["project_copy"].st = 1
    /\ heap["X_test_copy"].st = 1 /\ heap["transformed"].st = 1
    /\ \A r \in Origs : heap[r].st = 0


\* ---- C1 ----------------------------------------------------------------
InRepeat == pc \notin {"main_for", "main_finish", "done"}

\* C1: a repeat that raises appends nothing to aucs and test_times and the
\* loop goes on to the next index; the lists grow only when evaluate_model
\* returned, by that repeat's result at the end, so that between repeats they
\* hold one entry per repeat that did not fail, and all n_repeats repeats
\* have been attempted when the loop ends.
C1_FailedRepeatAppendsNothing ==
    /\ [][pc = "main_except" =>
             (aucs' = aucs /\ test_times' = test_times /\ pc' = "main_for" /\ i' = i + 1)]_vars
    /\ [][(aucs' # aucs \/ test_times' # test_times) =>
             /\ pc = "main_record"
             /\ aucs' = Append(aucs, ret.auc)
             /\ test_times' = Append(test_times, ret.test_time)]_vars
    /\ [](caller = "main" =>
             /\ Len(test_times) = Len(aucs)
             /\ Len(aucs) = i - Len(errlog)
             /\ pc \in {"main_finish", "done"} => (i = n_repeats /\ infolog = <<0, 1, 2, 3, 4>>))

C1_Witness ==
    /\ pc = "done" /\ Len(errlog) = 2 /\ Len(aucs) = 3 /\ Len(test_times) = 3
    /\ aucs[1] # aucs[2]

\* ---- C2 ----------------------------------------------------------------
\* C2: after all repeats the four per-repeat lists of the result record have
\* one entry per successful repeat, so they have equal length.
C2_ListsHaveEqualLength ==
    pc = "done" =>
        /\ res.written
        /\ Len(res.test_times) = Len(res.aucs)
        /\ Len(res.model_spaces) = Len(res.aucs)
        /\ Len(res.test_spaces) = Len(res.aucs)

\* ---- C7 ----------------------------------------------------------------
\* C7: when every repeat failed, main still ends with a record written whose
\* AUC and test-time lists are empty, and the means of AUC and of footprint
\* are undefined (nan), not numbers.
C7_AllFailedMeansUndefined ==
    (pc = "done" /\ Len(errlog) = n_repeats) =>
        /\ res.written
        /\ res.aucs = <<>> /\ res.test_times = <<>>
        /\ IsNaN(dbg.auc_mean)
        /\ IsNaN(dbg.model_spaces_mean)

\* ---- C9 ----------------------------------------------------------------
\* C9: the indices 0..n_repeats-1 are attempted once each, in increasing
\* order; a failure is logged by the handler before the next index is taken,
\* so between repeats no exception is pending and the error entries plus the
\* recorded results number the repeats made.
C9_EachRepeatOnceFailuresLogged ==
    caller = "main" =>
        /\ \A k \in Idx(infolog) : infolog[k] = k - 1
        /\ Len(infolog) = IF InRepeat THEN i + 1 ELSE i
        /\ Len(errlog) + Len(aucs) = i
        /\ i <= n_repeats
        /\ (pc = "main_except") = (exc # "none")
        /\ pc \in {"main_finish", "done"} => i = n_repeats

C9_Witness ==
    /\ pc = "main_for" /\ i = 3 /\ Len(errlog) = 2 /\ Len(aucs) = 1
    /\ infolog = <<0, 1, 2>>

====
